---- MODULE Spec2Model ----
(***************************************************************************)
(* Model of mermaidomatic.py: validation of the input path, parsing, the   *)
(* call-graph extraction (analyze_ast), the Mermaid serialisation          *)
(* (generate_mermaid_syntax) and the report writer, driven by main.        *)
(*                                                                         *)
(* A syntax tree is a sequence of nodes in source (pre-)order; node i has  *)
(* a parent j < i, and parent 0 is the ast.Module root.  Function          *)
(* definitions are top-level (nested functions and methods are outside the *)
(* program's stated scope).  A call statement `b(x)` is an ast.Expr node   *)
(* whose value child is the ast.Call, one level deeper, as in Python.      *)
(***************************************************************************)
EXTENDS Integers, Sequences, FiniteSets, TLC

\* ------------------------------------------------------------------ bounds
MaxNodes == 5       \* nodes of a tree made of definitions and plain calls
MaxLoopNodes == 4   \* nodes of a tree with loops
MaxMetaNodes == 3   \* nodes of a tree with parameters, docstrings and returns
MaxArgs == 1        \* arguments of one call

\* ------------------------------------------------------------ input values
FuncNames == {"f", "g"}
CallNames == FuncNames \cup {"h"}      \* "h" is defined nowhere
NoDoc == "<no docstring>"              \* ast.get_docstring(...) is None
\* what was at output_path before the run: an older document, or nothing
PreviousOutput == [state |-> "previous"]
Clock == {"t1", "t2"}                  \* instants datetime.now can return

\* Python values a Constant argument can hold; a value is (type, repr).
PyStr(s) == [type |-> "str", v |-> s]
PyValues == {PyStr("s"), [type |-> "int", v |-> "1"], [type |-> "bool", v |-> "True"],
             [type |-> "NoneType", v |-> "None"]}

\* Argument expressions of a call.
ArgExprs == {[kind |-> "Name", id |-> "x", value |-> PyStr("")],
             [kind |-> "BinOp", id |-> "", value |-> PyStr("")]}
            \cup {[kind |-> "Constant", id |-> "", value |-> pv] : pv \in PyValues}

RECURSIVE SeqsUpTo(_, _)
SeqsUpTo(S, n) ==
  IF n = 0 THEN {<<>>}
  ELSE LET shorter == SeqsUpTo(S, n - 1)
       IN shorter \cup {Append(s, x) : s \in {t \in shorter : Len(t) = n - 1}, x \in S}

ArgLists == SeqsUpTo(ArgExprs, MaxArgs)

\* Node labels (a node is a label with its parent filled in).
FunctionDef(name, params, doc) ==
  [kind |-> "FunctionDef", parent |-> 0, name |-> name, params |-> params,
   doc |-> doc, args |-> <<>>, value |-> ""]
Loop(kind) ==
  [kind |-> kind, parent |-> 0, name |-> "", params |-> <<>>,
   doc |-> NoDoc, args |-> <<>>, value |-> ""]
CallStmt(func, args) ==
  [kind |-> "Expr", parent |-> 0, name |-> func, params |-> <<>>,
   doc |-> NoDoc, args |-> args, value |-> "Call"]
\* value "" is a bare `return`; otherwise the type name of the returned expression
Return(value) ==
  [kind |-> "Return", parent |-> 0, name |-> "", params |-> <<>>,
   doc |-> NoDoc, args |-> <<>>, value |-> value]

Containers == {"FunctionDef", "For", "While"}

RECURSIVE Ancestors(_, _)
\* node n and the nodes above it, the Module root 0 included
Ancestors(tree, n) ==
  IF n = 0 THEN {0} ELSE {n} \cup Ancestors(tree, tree[n].parent)

\* parents the next node in source order can have
OpenParents(tree) ==
  {p \in Ancestors(tree, Len(tree)) : p = 0 \/ tree[p].kind \in Containers}

RECURSIVE Trees(_, _)
\* all trees of at most n nodes over the labels: definitions at top level,
\* everything else inside a definition
Trees(labels, n) ==
  IF n = 0 THEN {<<>>}
  ELSE LET smaller == Trees(labels, n - 1)
           full == {t \in smaller : Len(t) = n - 1}
       IN smaller \cup
          UNION {{Append(t, [l EXCEPT !.parent = p]) :
                    l \in {x \in labels : (x.kind = "FunctionDef") <=> (p = 0)}} :
                 <<t, p>> \in {<<t, p>> \in full \X (0..(n - 1)) : p \in OpenParents(t)}}

PlainDefs == {FunctionDef(n, <<>>, NoDoc) : n \in FuncNames}
CallLabels == PlainDefs \cup {CallStmt(c, <<>>) : c \in CallNames}
LoopLabels == PlainDefs \cup {Loop("For"), Loop("While")}
              \cup {CallStmt(c, <<>>) : c \in FuncNames}
MetaLabels == {FunctionDef(n, <<>>, NoDoc) : n \in FuncNames}
              \cup {FunctionDef(n, <<"x">>, "doc") : n \in FuncNames}
              \cup {Return(v) : v \in {"", "Name", "Constant"}}
ArgLabels == {FunctionDef("f", <<"x">>, NoDoc)} \cup {CallStmt("f", a) : a \in ArgLists}

\* the source files the model is run on
InputTrees == Trees(CallLabels, MaxNodes) \cup Trees(LoopLabels, MaxLoopNodes)
              \cup Trees(MetaLabels, MaxMetaNodes) \cup Trees(ArgLabels, 3)

\* PYTHONHASHSEED: the iteration order of a set of str differs between
\* processes; a seed stands for the order it induces on the type names.
HashSeeds == {0, 1}

\* ------------------------------------------------------------------- state
VARIABLES
  fileExists,        \* os.path.exists(file_path)
  endsWithPy,        \* file_path.endswith('.py')
  fileContent,       \* the tree the source text at file_path parses to
  hashSeed,          \* string-hash seed of this process
  outputFile,        \* what is stored at output_path
  pc,                \* position in main
  log,               \* records handed to logging
  ast_tree,          \* main's ast_tree
  todo,              \* deque of the outer ast.walk of analyze_ast
  analysis,          \* ordered function-name list
  function_calls,    \* caller -> calls, in key-insertion order
  function_details,  \* name -> params / returns / docstring
  syntax,            \* text built by generate_mermaid_syntax, line by line
  cursor             \* position of generate_mermaid_syntax in its loops

vars == <<fileExists, endsWithPy, fileContent, hashSeed, outputFile, pc, log,
          ast_tree, todo, analysis, function_calls, function_details, syntax, cursor>>

\* --------------------------------------------------------------- validator
\* the suffix test left out
validate_file_path_no_suffix(exists, isPy) ==
  IF ~exists THEN "File does not exist." ELSE "True"

\* lines 12-17; "True" stands for the value True
validate_file_path(exists, isPy) ==
  IF ~exists THEN "File does not exist."
  ELSE IF ~isPy THEN "Not a Python file."
  ELSE "True"

\* ---------------------------------------------------------------- ast.walk
Root == [id |-> 0, sub |-> FALSE]

\* type(node).__name__ of a walk item; sub marks the value child of an Expr
Kind(tree, item) ==
  IF item.sub THEN tree[item.id].value
  ELSE IF item.id = 0 THEN "Module"
  ELSE tree[item.id].kind

RECURSIVE Ascending(_)
Ascending(S) ==
  IF S = {} THEN <<>>
  ELSE LET m == CHOOSE x \in S : \A y \in S : x <= y
       IN <<m>> \o Ascending(S \ {m})

iter_child_nodes(tree, item) ==
  IF item.sub THEN <<>>
  ELSE IF item.id # 0 /\ tree[item.id].kind = "Expr"
       THEN <<[id |-> item.id, sub |-> TRUE]>>
  ELSE LET kids == Ascending({i \in 1..Len(tree) : tree[i].parent = item.id})
       IN [k \in 1..Len(kids) |-> [id |-> kids[k], sub |-> FALSE]]

RECURSIVE walk(_, _)
\* the nodes ast.walk yields from a deque: popleft, extend with the children
walk(tree, deque) ==
  IF deque = <<>> THEN <<>>
  ELSE <<Head(deque)>> \o walk(tree, Tail(deque) \o iter_child_nodes(tree, Head(deque)))

\* --------------------------------------------------------------- extractor
\* type names of the values of the value-carrying returns under node n
return_types(tree, n) ==
  LET nodes == walk(tree, <<[id |-> n, sub |-> FALSE]>>)
  IN {tree[nodes[k].id].value :
        k \in {j \in 1..Len(nodes) : Kind(tree, nodes[j]) = "Return"
                                       /\ tree[nodes[j].id].value # ""}}

\* iteration order of a set of type names under a hash seed
SetOrder(seed) ==
  IF seed = 0 THEN <<"Name", "Constant">> ELSE <<"Constant", "Name">>

\* ', '.join(S): the joined text as the sequence of its parts
JoinSet(S, seed) == SelectSeq(SetOrder(seed), LAMBDA x : x \in S)

\* the test of line 37 inverted
details_of_inverted(tree, n, seed) ==
  [params |-> tree[n].params,
   returns |-> IF return_types(tree, n) = {} THEN JoinSet(return_types(tree, n), seed)
               ELSE <<"None">>,
   docstring |-> tree[n].doc]

\* lines 35-39
details_of(tree, n, seed) ==
  [params |-> tree[n].params,
   returns |-> IF return_types(tree, n) # {} THEN JoinSet(return_types(tree, n), seed)
               ELSE <<"None">>,
   docstring |-> tree[n].doc]

\* descriptor recorded for one argument expression
params_passed_of(arg) ==
  IF arg.kind = "Name" THEN PyStr(arg.id)
  ELSE IF arg.kind = "Constant" THEN arg.value
  ELSE PyStr(arg.kind)

\* the flag follows the node at hand instead of staying set
loop_flag_reset(in_loop, kind) == kind \in {"For", "While"}

\* lines 43-44: the flag is set at a loop node and never cleared
loop_flag(in_loop, kind) == in_loop \/ kind \in {"For", "While"}

RECURSIVE scan_calls_any(_, _, _, _)
\* the membership test `in analysis` left out
scan_calls_any(tree, nodes, in_loop, known) ==
  IF nodes = <<>> THEN <<>>
  ELSE LET sub_node == Head(nodes)
           flag == loop_flag(in_loop, Kind(tree, sub_node))
           found == IF Kind(tree, sub_node) = "Call"
                    THEN <<[call |-> tree[sub_node.id].name,
                            in_loop |-> flag,
                            params_passed |-> [k \in 1..Len(tree[sub_node.id].args) |->
                                                 params_passed_of(tree[sub_node.id].args[k])],
                            site |-> sub_node.id]>>
                    ELSE <<>>
       IN found \o scan_calls_any(tree, Tail(nodes), flag, known)

RECURSIVE scan_calls(_, _, _, _)
\* the second walk over a definition: the tuples appended to function_calls
scan_calls(tree, nodes, in_loop, known) ==
  IF nodes = <<>> THEN <<>>
  ELSE LET sub_node == Head(nodes)
           flag == loop_flag(in_loop, Kind(tree, sub_node))
           found == IF Kind(tree, sub_node) = "Call" /\ tree[sub_node.id].name \in known
                    THEN <<[call |-> tree[sub_node.id].name,
                            in_loop |-> flag,
                            params_passed |-> [k \in 1..Len(tree[sub_node.id].args) |->
                                                 params_passed_of(tree[sub_node.id].args[k])],
                            site |-> sub_node.id]>>
                    ELSE <<>>
       IN found \o scan_calls(tree, Tail(nodes), flag, known)

Range(s) == {s[k] : k \in 1..Len(s)}

\* function_calls[name].append(...) for each tuple, on a defaultdict(list)
append_calls(calls_map, name, new) ==
  IF new = <<>> THEN calls_map
  ELSE IF \E k \in 1..Len(calls_map) : calls_map[k].func = name
       THEN [k \in 1..Len(calls_map) |->
               IF calls_map[k].func = name
               THEN [calls_map[k] EXCEPT !.calls = @ \o new]
               ELSE calls_map[k]]
  ELSE Append(calls_map, [func |-> name, calls |-> new])

\* setdefault in place of assignment: the first definition's entry is kept
set_details_keep_first(details_map, name, d) ==
  [x \in DOMAIN details_map \cup {name} |->
     IF x \in DOMAIN details_map THEN details_map[x] ELSE d]

\* function_details[name] = {...}
set_details(details_map, name, d) ==
  [x \in DOMAIN details_map \cup {name} |-> IF x = name THEN d ELSE details_map[x]]

\* --------------------------------------------------------------- serialiser
\* the opening fence with "graph TD;" and the closing fence
Header == [line |-> "header"]
Footer == [line |-> "footer"]

node_line(func, details) ==
  [line |-> "node", name |-> func,
   params |-> details.params,
   returns |-> IF details.returns # <<>> THEN details.returns ELSE <<"None">>,
   docstring |-> IF details.docstring # NoDoc THEN details.docstring ELSE "None"]

\* ', '.join(params_passed) raises TypeError unless every item is a str
join_ok(params_passed) == \A k \in 1..Len(params_passed) : params_passed[k].type = "str"

edge_label(in_loop) == IF in_loop THEN "in_loop" ELSE "calls"

edge_line(func, c) ==
  [line |-> "edge", caller |-> func, label |-> edge_label(c.in_loop),
   params |-> [k \in 1..Len(c.params_passed) |-> c.params_passed[k].v],
   callee |-> c.call, site |-> c.site]

RECURSIVE flatten_lifo(_)
\* each caller's list consumed from its end
flatten_lifo(calls_map) ==
  IF calls_map = <<>> THEN <<>>
  ELSE [k \in 1..Len(Head(calls_map).calls) |->
          [func |-> Head(calls_map).func,
           c |-> Head(calls_map).calls[Len(Head(calls_map).calls) + 1 - k]]]
       \o flatten_lifo(Tail(calls_map))

RECURSIVE flatten(_)
\* the (func, call) pairs in the order of the nested loops over function_calls.items()
flatten(calls_map) ==
  IF calls_map = <<>> THEN <<>>
  ELSE [k \in 1..Len(Head(calls_map).calls) |->
          [func |-> Head(calls_map).func, c |-> Head(calls_map).calls[k]]]
       \o flatten(Tail(calls_map))

\* the whole function: the text, or the TypeError that join raises
generate_mermaid_syntax(names, calls_map, details_map) ==
  LET edges == flatten(calls_map)
  IN IF \A k \in 1..Len(edges) : join_ok(edges[k].c.params_passed)
     THEN [raised |-> FALSE,
           syntax |-> <<Header>>
                      \o [i \in 1..Len(names) |-> node_line(names[i], details_map[names[i]])]
                      \o [k \in 1..Len(edges) |-> edge_line(edges[k].func, edges[k].c)]
                      \o <<Footer>>]
     ELSE [raised |-> TRUE, syntax |-> <<>>]

\* --------------------------------------------------- extractor, step by step
\* line 28 indented under the test of line 32: the name is appended once per
\* value-carrying return of the definition
visit_append_under_return(tree, seed, st) ==
  LET node == Head(st.todo)
      rest == Tail(st.todo) \o iter_child_nodes(tree, node)
  IN IF Kind(tree, node) = "FunctionDef"
     THEN LET name == tree[node.id].name
              sub == walk(tree, <<node>>)
              hits == SelectSeq(sub, LAMBDA x : Kind(tree, x) = "Return"
                                                 /\ tree[x.id].value # "")
              known == st.analysis \o [k \in 1..Len(hits) |-> name]
          IN [todo |-> rest,
              analysis |-> known,
              function_details |->
                set_details(st.function_details, name, details_of(tree, node.id, seed)),
              function_calls |->
                append_calls(st.function_calls, name,
                             scan_calls(tree, sub, FALSE, Range(known)))]
     ELSE [st EXCEPT !.todo = rest]

\* one iteration of the loop over ast.walk(ast_tree), lines 26-50
visit(tree, seed, st) ==
  LET node == Head(st.todo)
      rest == Tail(st.todo) \o iter_child_nodes(tree, node)
  IN IF Kind(tree, node) = "FunctionDef"
     THEN LET name == tree[node.id].name
              known == Append(st.analysis, name)
          IN [todo |-> rest,
              analysis |-> known,
              function_details |->
                set_details(st.function_details, name, details_of(tree, node.id, seed)),
              function_calls |->
                append_calls(st.function_calls, name,
                             scan_calls(tree, walk(tree, <<node>>), FALSE, Range(known)))]
     ELSE [st EXCEPT !.todo = rest]

EmptyAnalysis(tree) ==
  [todo |-> <<Root>>, analysis |-> <<>>, function_calls |-> <<>>, function_details |-> <<>>]

RECURSIVE run_walk(_, _, _)
run_walk(tree, seed, st) ==
  IF st.todo = <<>> THEN st ELSE run_walk(tree, seed, visit(tree, seed, st))

\* the whole function, in a process whose hash seed is seed
analyze_ast(tree, seed) == run_walk(tree, seed, EmptyAnalysis(tree))

\* -------------------------------------------------------------------- main
Init ==
  /\ fileExists \in BOOLEAN
  /\ endsWithPy \in BOOLEAN
  /\ fileContent \in (IF fileExists /\ endsWithPy THEN InputTrees ELSE {<<>>})
  /\ hashSeed \in HashSeeds
  /\ outputFile = PreviousOutput
  /\ pc = "validate"
  /\ log = <<>>
  /\ ast_tree = <<>>
  /\ todo = <<>>
  /\ analysis = <<>>
  /\ function_calls = <<>>
  /\ function_details = <<>>
  /\ syntax = <<>>
  /\ cursor = [i |-> 1, j |-> 1]

\* lines 78-83
Validate ==
  /\ pc = "validate"
  /\ LET validation_result == validate_file_path(fileExists, endsWithPy)
     IN IF validation_result # "True"
        THEN /\ log' = Append(log, "ERROR Validation failed: " \o validation_result)
             /\ pc' = "failed"
        ELSE /\ log' = Append(log, "INFO Starting AST analysis...")
             /\ pc' = "parse"
  /\ UNCHANGED <<fileExists, endsWithPy, fileContent, hashSeed, outputFile, ast_tree,
                 todo, analysis, function_calls, function_details, syntax, cursor>>

\* line 84, and the set-up of analyze_ast (line 24, first deque of ast.walk)
Parse ==
  /\ pc = "parse"
  /\ ast_tree' = fileContent
  /\ todo' = EmptyAnalysis(fileContent).todo
  /\ analysis' = EmptyAnalysis(fileContent).analysis
  /\ function_calls' = EmptyAnalysis(fileContent).function_calls
  /\ function_details' = EmptyAnalysis(fileContent).function_details
  /\ pc' = "analyze"
  /\ UNCHANGED <<fileExists, endsWithPy, fileContent, hashSeed, outputFile, log, syntax, cursor>>

AnalysisState ==
  [todo |-> todo, analysis |-> analysis, function_calls |-> function_calls,
   function_details |-> function_details]

Visit ==
  /\ pc = "analyze"
  /\ todo # <<>>
  /\ LET st == visit(ast_tree, hashSeed, AnalysisState)
     IN /\ todo' = st.todo
        /\ analysis' = st.analysis
        /\ function_calls' = st.function_calls
        /\ function_details' = st.function_details
  /\ UNCHANGED <<fileExists, endsWithPy, fileContent, hashSeed, outputFile, pc, log,
                 ast_tree, syntax, cursor>>

\* a function definition is visited: lines 27-50
VisitFunctionDef ==
  /\ pc = "analyze"
  /\ todo # <<>>
  /\ Kind(ast_tree, Head(todo)) = "FunctionDef"
  /\ Visit

\* any other node is visited: line 27 is false
VisitOther ==
  /\ pc = "analyze"
  /\ todo # <<>>
  /\ Kind(ast_tree, Head(todo)) # "FunctionDef"
  /\ Visit

\* analyze_ast returns; lines 87-88 and 55
StartGenerate ==
  /\ pc = "analyze"
  /\ todo = <<>>
  /\ log' = Append(log, "INFO Generating Mermaid.js syntax...")
  /\ syntax' = <<Header>>
  /\ cursor' = [i |-> 1, j |-> 1]
  /\ pc' = "generate"
  /\ UNCHANGED <<fileExists, endsWithPy, fileContent, hashSeed, outputFile, ast_tree,
                 todo, analysis, function_calls, function_details>>

\* one iteration of the loop of lines 57-62
EmitNode ==
  /\ pc = "generate"
  /\ cursor.i <= Len(analysis)
  /\ syntax' = Append(syntax, node_line(analysis[cursor.i], function_details[analysis[cursor.i]]))
  /\ cursor' = [cursor EXCEPT !.i = @ + 1]
  /\ UNCHANGED <<fileExists, endsWithPy, fileContent, hashSeed, outputFile, pc, log, ast_tree,
                 todo, analysis, function_calls, function_details>>

\* one iteration of the loops of lines 64-67
EmitEdge ==
  /\ pc = "generate"
  /\ cursor.i > Len(analysis)
  /\ cursor.j <= Len(flatten(function_calls))
  /\ LET e == flatten(function_calls)[cursor.j]
     IN /\ join_ok(e.c.params_passed)
        /\ syntax' = Append(syntax, edge_line(e.func, e.c))
  /\ cursor' = [cursor EXCEPT !.j = @ + 1]
  /\ UNCHANGED <<fileExists, endsWithPy, fileContent, hashSeed, outputFile, pc, log, ast_tree,
                 todo, analysis, function_calls, function_details>>

\* line 66 raises TypeError, which main lets through
EmitEdgeTypeError ==
  /\ pc = "generate"
  /\ cursor.i > Len(analysis)
  /\ cursor.j <= Len(flatten(function_calls))
  /\ ~join_ok(flatten(function_calls)[cursor.j].c.params_passed)
  /\ pc' = "raised"
  /\ UNCHANGED <<fileExists, endsWithPy, fileContent, hashSeed, outputFile, log, ast_tree,
                 todo, analysis, function_calls, function_details, syntax, cursor>>

\* lines 69 and 90
FinishGenerate ==
  /\ pc = "generate"
  /\ cursor.i > Len(analysis)
  /\ cursor.j > Len(flatten(function_calls))
  /\ syntax' = Append(syntax, Footer)
  /\ log' = Append(log, "INFO Writing to Markdown file...")
  /\ pc' = "write"
  /\ UNCHANGED <<fileExists, endsWithPy, fileContent, hashSeed, outputFile, ast_tree,
                 todo, analysis, function_calls, function_details, cursor>>

write_to_markdown(text, current_time) ==
  [state |-> "written", title |-> "# Generated Mermaid.js Diagram",
   time |-> current_time, syntax |-> text]

\* lines 91-92
Write ==
  /\ pc = "write"
  /\ \E current_time \in Clock : outputFile' = write_to_markdown(syntax, current_time)
  /\ log' = Append(log, "INFO Process completed successfully.")
  /\ pc' = "done"
  /\ UNCHANGED <<fileExists, endsWithPy, fileContent, hashSeed, ast_tree,
                 todo, analysis, function_calls, function_details, syntax, cursor>>

Next ==
  \/ Validate
  \/ Parse
  \/ VisitFunctionDef
  \/ VisitOther
  \/ StartGenerate
  \/ EmitNode
  \/ EmitEdge
  \/ EmitEdgeTypeError
  \/ FinishGenerate
  \/ Write

Spec == Init /\ [][Next]_vars

TypeOK ==
  /\ pc \in {"validate", "failed", "parse", "analyze", "generate", "raised", "write", "done"}
  /\ pc = "write" =>
       /\ ~generate_mermaid_syntax(analysis, function_calls, function_details).raised
       /\ syntax = generate_mermaid_syntax(analysis, function_calls, function_details).syntax
  /\ pc \in {"generate", "write", "done", "raised"} =>
       AnalysisState = analyze_ast(ast_tree, hashSeed)

\* ------------------------------------------------- vocabulary of the properties
\* These describe the source file itself (lexical nesting, definition order),
\* independently of the walks the extractor makes.
DefIds(tree) == {d \in 1..Len(tree) : tree[d].kind = "FunctionDef"}
CallSites(tree) == {n \in 1..Len(tree) : tree[n].kind = "Expr" /\ tree[n].value = "Call"}
EnclosingDef(tree, n) ==
  CHOOSE d \in Ancestors(tree, n) : d # 0 /\ tree[d].kind = "FunctionDef"
InsideLoop(tree, n) ==
  \E a \in Ancestors(tree, n) \ {0, n} : tree[a].kind \in {"For", "While"}
Depth(tree, n) == Cardinality(Ancestors(tree, n)) - 1
\* the called name is defined at or before the definition the call is in
AlreadyKnown(tree, n) ==
  \E d \in DefIds(tree) : d <= EnclosingDef(tree, n) /\ tree[d].name = tree[n].name

EdgeLines == {k \in 1..Len(syntax) : syntax[k].line = "edge"}
NodeLines == {k \in 1..Len(syntax) : syntax[k].line = "node"}
RecordedEdges == flatten(function_calls)
AnalysisComplete == pc \in {"generate", "raised", "write", "done"}

\* C1: every emitted edge whose call site is not lexically inside a for/while
\* loop carries the label `calls`.
C1_OutsideLoopIsCalls ==
  \A k \in EdgeLines :
    ~InsideLoop(ast_tree, syntax[k].site) => syntax[k].label = "calls"

\* C2: a direct-name call to an already-known function that is lexically
\* nested, at any depth, inside a for/while loop is recorded exactly once, with
\* loop flag true, and is emitted exactly once, with the label `in_loop`.
C2_InsideLoopIsInLoop ==
  \A n \in CallSites(ast_tree) :
    (InsideLoop(ast_tree, n) /\ AlreadyKnown(ast_tree, n)) =>
      /\ AnalysisComplete =>
           /\ Cardinality({k \in 1..Len(RecordedEdges) : RecordedEdges[k].c.site = n}) = 1
           /\ \A k \in 1..Len(RecordedEdges) :
                RecordedEdges[k].c.site = n =>
                  /\ RecordedEdges[k].c.in_loop
                  /\ RecordedEdges[k].func = ast_tree[EnclosingDef(ast_tree, n)].name
                  /\ RecordedEdges[k].c.call = ast_tree[n].name
      /\ pc \in {"write", "done"} =>
           /\ Cardinality({k \in EdgeLines : syntax[k].site = n}) = 1
           /\ \A k \in EdgeLines : syntax[k].site = n => syntax[k].label = "in_loop"

\* a call two loops deep has been serialised
C2_Witness ==
  /\ pc = "done"
  /\ \E n \in CallSites(ast_tree) :
       /\ AlreadyKnown(ast_tree, n)
       /\ Cardinality({a \in Ancestors(ast_tree, n) \ {0} :
                         ast_tree[a].kind \in {"For", "While"}}) = 2
       /\ \E k \in EdgeLines : syntax[k].site = n

\* C3: any run on the same source file produces the text this run produced.
C3_Deterministic ==
  pc \in {"write", "done"} =>
    \A seed \in HashSeeds :
      LET r == analyze_ast(ast_tree, seed)
      IN generate_mermaid_syntax(r.analysis, r.function_calls, r.function_details).syntax
           = syntax

\* the definitions the outer walk has reached are the first Len(analysis) ones
Visited(tree, d) == Cardinality({x \in DefIds(tree) : x <= d}) <= Len(analysis)
HasEdge(n) == \E k \in 1..Len(RecordedEdges) : RecordedEdges[k].c.site = n

\* C4: in every state, every recorded edge goes from the definition its call
\* site is in to a name that was in the function-name sequence when it was
\* recorded, and a call in a visited definition has an edge exactly when its
\* name was in the sequence by then (the caller's own name included).
C4_EdgesOnlyToKnown ==
  /\ \A k \in 1..Len(RecordedEdges) :
       LET e == RecordedEdges[k]
       IN /\ e.c.site \in CallSites(ast_tree)
          /\ e.c.call = ast_tree[e.c.site].name
          /\ e.func = ast_tree[EnclosingDef(ast_tree, e.c.site)].name
          /\ AlreadyKnown(ast_tree, e.c.site)
          /\ e.c.call \in Range(analysis)
  /\ \A n \in CallSites(ast_tree) :
       HasEdge(n) <=>
         (Visited(ast_tree, EnclosingDef(ast_tree, n)) /\ AlreadyKnown(ast_tree, n))

\* a self-call is linked; a forward reference and a call to an undefined name are not
C4_Witness ==
  /\ pc = "done"
  /\ \E n \in CallSites(ast_tree) :
       HasEdge(n) /\ ast_tree[n].name = ast_tree[EnclosingDef(ast_tree, n)].name
  /\ \E n \in CallSites(ast_tree) :
       /\ ~HasEdge(n)
       /\ \E d \in DefIds(ast_tree) : ast_tree[d].name = ast_tree[n].name
  /\ \E n \in CallSites(ast_tree) :
       /\ ~HasEdge(n)
       /\ \A d \in DefIds(ast_tree) : ast_tree[d].name # ast_tree[n].name

NodesEmitted == pc \in {"raised", "write", "done"}

\* C5: the names of the emitted node declarations are exactly the names of
\* the function definitions of the file.
C5_NodeNamesAreDefinitions ==
  NodesEmitted =>
    {syntax[k].name : k \in NodeLines} = {ast_tree[d].name : d \in DefIds(ast_tree)}

\* two names, one of them defined twice, have been serialised
C5_Witness ==
  /\ pc = "done"
  /\ Cardinality(DefIds(ast_tree)) = 3
  /\ Cardinality({syntax[k].name : k \in NodeLines}) = 2

\* the definition whose metadata is in force for a name: the last one
LastDef(tree, name) ==
  CHOOSE d \in DefIds(tree) :
    tree[d].name = name /\ \A x \in DefIds(tree) : tree[x].name = name => x <= d
\* type names of the values returned lexically inside definition d
ValueReturns(tree, d) ==
  {tree[n].value : n \in {x \in 1..Len(tree) : /\ tree[x].kind = "Return"
                                                /\ tree[x].value # ""
                                                /\ d \in Ancestors(tree, x)}}

\* C6: the RETURNS field of a node is the sentinel `None` when the function
\* has no value-carrying return, never the empty text; otherwise it is the
\* non-empty join of the distinct categories of its value-carrying returns.
C6_ReturnsField ==
  \A k \in NodeLines :
    LET cats == ValueReturns(ast_tree, LastDef(ast_tree, syntax[k].name))
    IN IF cats = {}
       THEN syntax[k].returns = <<"None">>
       ELSE /\ syntax[k].returns # <<>>
            /\ Range(syntax[k].returns) = cats
            /\ Len(syntax[k].returns) = Cardinality(cats)

\* a function with only a bare return, or none, and one returning a value
C6_Witness ==
  /\ pc = "done"
  /\ \E k \in NodeLines :
       ValueReturns(ast_tree, LastDef(ast_tree, syntax[k].name)) = {}
  /\ \E k \in NodeLines :
       ValueReturns(ast_tree, LastDef(ast_tree, syntax[k].name)) # {}

\* C7: when the path does not exist, or exists without the .py suffix, the
\* only step main takes logs the error (NotFound first) and stops: nothing is
\* parsed, extracted or serialised and the output file is left as it was.
C7_ValidationFailureWritesNothing ==
  [][(~fileExists \/ ~endsWithPy) =>
       /\ pc' = "failed"
       /\ outputFile' = outputFile
       /\ ast_tree' = <<>> /\ analysis' = <<>> /\ syntax' = <<>>
       /\ log' = <<"ERROR Validation failed: " \o
                   (IF ~fileExists THEN "File does not exist." ELSE "Not a Python file.")>>]_vars

\* a missing path without the suffix was rejected as missing
C7_Witness ==
  /\ pc = "failed"
  /\ ~fileExists /\ ~endsWithPy
  /\ log = <<"ERROR Validation failed: File does not exist.">>
  /\ outputFile = PreviousOutput

\* C8: generate_mermaid_syntax completes on every analysis result, and its
\* text has one edge line per recorded edge, in order, with the argument
\* descriptors of that edge.
C8_EveryEdgeSerialised ==
  /\ pc # "raised"
  /\ pc \in {"write", "done"} =>
       LET lines == SelectSeq(syntax, LAMBDA l : l.line = "edge")
       IN /\ Len(lines) = Len(RecordedEdges)
          /\ \A k \in 1..Len(lines) :
               /\ lines[k].caller = RecordedEdges[k].func
               /\ lines[k].callee = RecordedEdges[k].c.call
               /\ lines[k].params = [a \in 1..Len(RecordedEdges[k].c.params_passed) |->
                                       RecordedEdges[k].c.params_passed[a].v]

DefinedNames(tree) == {tree[d].name : d \in DefIds(tree)}
Declarations(name) == {k \in NodeLines : syntax[k].name = name}
\* the declaration carries the metadata of the last definition of its name
CarriesLastDefinition(k) ==
  LET d == LastDef(ast_tree, syntax[k].name)
  IN /\ syntax[k].params = ast_tree[d].params
     /\ syntax[k].docstring = (IF ast_tree[d].doc = NoDoc THEN "None" ELSE ast_tree[d].doc)
     /\ Range(syntax[k].returns) =
          (IF ValueReturns(ast_tree, d) = {} THEN {"None"} ELSE ValueReturns(ast_tree, d))

\* C9 as stated: a later definition overwrites the metadata of its name, and
\* the text has exactly one node declaration per distinct function name.
C9_OneNodePerName ==
  NodesEmitted =>
    \A name \in DefinedNames(ast_tree) :
      /\ Cardinality(Declarations(name)) = 1
      /\ \A k \in Declarations(name) : CarriesLastDefinition(k)

\* C9 amended: a later definition overwrites the metadata of its name, and
\* the text has one node declaration per definition, all declarations of a
\* name carrying the metadata of its last definition.
C9_OneNodePerDefinition ==
  NodesEmitted =>
    \A name \in DefinedNames(ast_tree) :
      /\ Cardinality(Declarations(name)) =
           Cardinality({d \in DefIds(ast_tree) : ast_tree[d].name = name})
      /\ \A k \in Declarations(name) : CarriesLastDefinition(k)

\* a name defined twice with different parameters has been serialised
C9_Witness ==
  /\ pc = "done"
  /\ \E d \in DefIds(ast_tree) :
       /\ d # LastDef(ast_tree, ast_tree[d].name)
       /\ ast_tree[d].params # ast_tree[LastDef(ast_tree, ast_tree[d].name)].params

\* call site n is recorded before call site m: definitions are visited in
\* source order, and the walk of one definition goes level by level
RecordedBefore(tree, n, m) ==
  LET dn == EnclosingDef(tree, n)
      dm == EnclosingDef(tree, m)
  IN \/ dn < dm
     \/ /\ dn = dm
        /\ \/ Depth(tree, n) < Depth(tree, m)
           \/ Depth(tree, n) = Depth(tree, m) /\ n < m
LinkedSites(tree, name) ==
  {n \in CallSites(tree) : AlreadyKnown(tree, n) /\ tree[EnclosingDef(tree, n)].name = name}
FirstRecorded(tree, name) ==
  CHOOSE n \in LinkedSites(tree, name) :
    \A m \in LinkedSites(tree, name) \ {n} : RecordedBefore(tree, n, m)
FirstDef(tree, name) ==
  CHOOSE d \in DefIds(tree) :
    tree[d].name = name /\ \A x \in DefIds(tree) : tree[x].name = name => d <= x

NodesThenEdges == \A a \in EdgeLines : \A b \in NodeLines : b < a
CallSiteOrder ==
  \A a, b \in EdgeLines :
    (a < b /\ syntax[a].caller = syntax[b].caller) =>
      RecordedBefore(ast_tree, syntax[a].site, syntax[b].site)

\* C10 as stated: nodes precede edges; callers are grouped, in the order of
\* their first appearance in the function-name sequence; within a caller the
\* edges are in the order their call sites were recorded.
C10_CallersInSequenceOrder ==
  /\ NodesThenEdges
  /\ CallSiteOrder
  /\ \A a, b \in EdgeLines :
       (a < b /\ syntax[a].caller # syntax[b].caller) =>
         FirstDef(ast_tree, syntax[a].caller) < FirstDef(ast_tree, syntax[b].caller)

\* C10 amended: nodes precede edges; callers are grouped, in the order in
\* which each caller's first edge was recorded; within a caller the edges
\* are in the order their call sites were recorded.
C10_CallersInFirstEdgeOrder ==
  /\ NodesThenEdges
  /\ CallSiteOrder
  /\ \A a, b \in EdgeLines :
       (a < b /\ syntax[a].caller # syntax[b].caller) =>
         RecordedBefore(ast_tree, FirstRecorded(ast_tree, syntax[a].caller),
                        FirstRecorded(ast_tree, syntax[b].caller))

\* a caller listed first in the sequence got its first edge from a later
\* redefinition, after another caller's; one caller has two edges
C10_Witness ==
  /\ pc = "done"
  /\ \E a, b \in EdgeLines :
       /\ a < b
       /\ syntax[a].caller # syntax[b].caller
       /\ FirstDef(ast_tree, syntax[b].caller) < FirstDef(ast_tree, syntax[a].caller)

====
